---- MODULE Spec2Model ----
(***************************************************************************)
(* The incremental event scanner of liquidity-datum:                       *)
(* scripts/scanStabilityPool.js (main, scanPool, getLogsWithRetry,         *)
(* resolveBlockTimestamps) over the sp_cursors table and the event tables  *)
(* sp_deposit_ops and sp_deposit_updates of db/schema.sql.  The scans of   *)
(* scripts/scanTroves.js (scanLoanNftTransfers, scanTroveManagerEvents)    *)
(* have the same shape statement for statement, over scan_cursors and      *)
(* their own event tables.                                                 *)
(*                                                                         *)
(* One step of the model is one run of the JavaScript event loop: the code *)
(* between two awaits.  The provider (head block, logs, block timestamps)  *)
(* is the environment and answers nondeterministically.  The run lock of   *)
(* utils/lock.js is a file per scanner script; an other scanner process    *)
(* beside the one followed step by step is modelled by its acquireLock and *)
(* releaseLock alone.  scripts/resetDatum.js clears the tables in one step, *)
(* and resolveBlockTimestamps is also followed lookup by lookup in a        *)
(* specification of its own.                                               *)
(***************************************************************************)
EXTENDS Integers, Sequences, FiniteSets, TLC

\* ------------------------------------------------------------------ bounds
MaxHead == 3          \* the provider's head block is drawn from 0 .. MaxHead
MaxOverlap == 1       \* DATUM_SCAN_OVERLAP_BLOCKS is drawn from 0 .. MaxOverlap
MaxWindow == 1        \* DATUM_FLR_SCAN_BLOCKS is drawn from 0 .. MaxWindow
MaxBatch == 3         \* a batch given to resolveBlockTimestamps holds 0 .. MaxBatch logs

\* ------------------------------------------------------- program constants
DefaultMaxAttempts == 6
BaseBackoffMs == 750
MaxBackoffMs == 10000
ExitSigint == 130
ExitSigterm == 143

\* JavaScript null / SQL NULL in a number-typed place
Null == -1

Max(a, b) == IF a >= b THEN a ELSE b
Min(a, b) == IF a <= b THEN a ELSE b

\* --------------------------------------------------------------- the store
\* the pools data/stability_pools.json may list, in order; cfg.pools is the
\* list it holds
Pools == <<"p1", "p2">>

\* cursorKey of scanPool
CursorKey(pool) == <<"sp", pool, "deposit_ops">>

CursorKeys == {CursorKey(Pools[i]) : i \in 1..Len(Pools)}

\* the lock files of the two scanners in locks/ (scanStabilityPool.js and
\* scanTroves.js)
LockNames == {"scan-stability-pool", "scan-redemptions"}

\* lockPath of a main() whose acquireLock returned null
NoLock == ""

\* who created a lock file: the scanner process followed step by step, or
\* another scanner process running beside it; NoFile where there is none
NoFile == "none"
Owners == {"scanner", "other"}

TableNames == {"sp_deposit_ops", "sp_deposit_updates"}

\* the table an item of a batch is inserted into (insert, insertUpdate)
TableOf(kind) == IF kind = "op" THEN "sp_deposit_ops" ELSE "sp_deposit_updates"

\* no row of sp_cursors for a key
NoCursor == [present |-> FALSE, start_block |-> 0, last_scanned_block |-> 0]

VARIABLES
  cfg,            \* the environment: the pools of stability_pools.json and their
                  \* default_start_block, the three settings read from .env, the
                  \* heads the provider may serve and the logs of the chain
  lockFiles,      \* locks/: lock name -> creator of the file, or NoFile
  other,          \* the lock an other scanner process holds; NoLock: none runs
  lockPath,       \* lockPath of main()
  caught,         \* the error caught by getLogsWithRetry in this attempt, if any
  cursors,        \* sp_cursors: cursor_key -> row
  tables,         \* event tables: name -> rows in rowid order
  pc,             \* where main() is suspended
  exitCode,       \* exit code of the last process (Null while none has ended)
  scan,           \* index into Pools of the pool being scanned
  startBlock,     \* locals of scanPool
  lastScanned,
  latestBlock,
  fromBlock,
  b,
  lastGoodBlock,
  windowIndex,
  attempt,        \* locals of getLogsWithRetry
  backoffMs,
  sleepMs,        \* argument of the sleep in progress
  res,            \* result of getLogsWithRetry
  events,         \* batch of the window processed last
  calls,          \* provider.getLogs calls of the getLogsWithRetry in progress
  committed,      \* windows of the scan in progress that reached lastGoodBlock = toBlock
  updates,        \* UPDATE statements this process has run on sp_cursors (each one
                  \* sets updated_at)
  covered,        \* history: cursor_key -> the blocks of the windows fetched and
                  \* committed since the event tables were last cleared, as intervals
  blocks,         \* what provider.getBlock answers, by block number, during one
                  \* resolveBlockTimestamps followed lookup by lookup
  lookups,        \* the block numbers provider.getBlock was called with, in order
  pending,        \* the positions in lookups whose promise is not settled
  tsMap           \* the Map of resolveBlockTimestamps: its entries in insertion order

vars == <<cfg, lockFiles, other, lockPath, caught, cursors, tables, pc, exitCode, scan, startBlock, lastScanned,
          latestBlock, fromBlock, b, lastGoodBlock, windowIndex, attempt, backoffMs,
          sleepMs, res, events, calls, committed, updates, covered, blocks, lookups,
          pending, tsMap>>

\* the state of a resolveBlockTimestamps followed lookup by lookup
resolveVars == <<blocks, lookups, pending, tsMap>>

\* the whole state as one record, so that the synchronous continuations of the
\* code (what runs after an await resolves, up to the next await) compose
Cur ==
  [lockFiles |-> lockFiles, lockPath |-> lockPath, caught |-> caught,
   cursors |-> cursors, tables |-> tables, pc |-> pc,
   exitCode |-> exitCode, scan |-> scan, startBlock |-> startBlock,
   lastScanned |-> lastScanned, latestBlock |-> latestBlock, fromBlock |-> fromBlock,
   b |-> b, lastGoodBlock |-> lastGoodBlock, windowIndex |-> windowIndex,
   attempt |-> attempt, backoffMs |-> backoffMs, sleepMs |-> sleepMs, res |-> res,
   events |-> events, calls |-> calls, committed |-> committed, updates |-> updates,
   covered |-> covered]

Set(st) ==
  /\ lockFiles' = st.lockFiles /\ lockPath' = st.lockPath /\ caught' = st.caught
  /\ cursors' = st.cursors /\ tables' = st.tables /\ pc' = st.pc
  /\ exitCode' = st.exitCode /\ scan' = st.scan /\ startBlock' = st.startBlock
  /\ lastScanned' = st.lastScanned /\ latestBlock' = st.latestBlock
  /\ fromBlock' = st.fromBlock /\ b' = st.b /\ lastGoodBlock' = st.lastGoodBlock
  /\ windowIndex' = st.windowIndex /\ attempt' = st.attempt /\ backoffMs' = st.backoffMs
  /\ sleepMs' = st.sleepMs /\ res' = st.res /\ events' = st.events /\ calls' = st.calls
  /\ committed' = st.committed /\ updates' = st.updates /\ covered' = st.covered
  /\ cfg' = cfg /\ other' = other
  /\ UNCHANGED resolveVars

\* ------------------------------------------------------------ the provider
\* The values a field of a log may hold, by what getStableLogIndex reads
\* of them: undefined, a number (num when it is an integer, and an integer
\* below it when it is not; NaN is a number that is no integer) or a string
\* (its characters).
Undef == [type |-> "undefined", int |-> FALSE, num |-> 0, str |-> <<>>]
Num(n) == [type |-> "number", int |-> TRUE, num |-> n, str |-> <<>>]
Frac(n) == [type |-> "number", int |-> FALSE, num |-> n, str |-> <<>>]
NaN == Frac(0)
Str(s) == [type |-> "string", int |-> FALSE, num |-> 0, str |-> s]

\* A log as provider.getLogs returns it under the filter of scanPool (the
\* address of a pool and the topics of the two events): index and logIndex
\* are such values, transactionHash is "" when the field is missing,
\* blockNumber is an integer, or Null when the field holds no integer, and
\* name is what iface.parseLog makes of topics and data, "throws" when it
\* throws.
RawLog(address, tx, index, logIndex, blk, name) ==
  [address |-> address, transactionHash |-> tx, index |-> index, logIndex |-> logIndex,
   blockNumber |-> blk, name |-> name]

\* The logs the chain holds, in chain order: two well-formed logs of the
\* first pool.
ChainLogs ==
  << RawLog("p1", "t1", Num(0), Undef, 1, "DepositOperation"),
     RawLog("p1", "t2", Num(0), Undef, 2, "DepositUpdated") >>

\* A chain with a log of each of two pools.
ChainLogsPools ==
  << RawLog("p1", "t1", Num(0), Undef, 1, "DepositOperation"),
     RawLog("p2", "t2", Num(0), Undef, 2, "DepositUpdated") >>

\* A chain of ten logs in two blocks, one of them without a usable log index
\* and one whose payload does not decode.
ChainLogsTen ==
  << RawLog("p1", "t1", Num(0), Undef, 1, "DepositOperation"),
     RawLog("p1", "t1", Num(1), Undef, 1, "DepositUpdated"),
     RawLog("p1", "t2", Undef, Undef, 1, "DepositOperation"),
     RawLog("p1", "t2", Num(1), Undef, 1, "DepositUpdated"),
     RawLog("p1", "t3", Undef, Num(2), 1, "DepositOperation"),
     RawLog("p1", "t4", Num(0), Undef, 2, "DepositOperation"),
     RawLog("p1", "t4", Num(1), Undef, 2, "throws"),
     RawLog("p1", "t5", Num(0), Undef, 2, "DepositUpdated"),
     RawLog("p1", "t5", Num(1), Undef, 2, "DepositOperation"),
     RawLog("p1", "t6", Num(0), Undef, 2, "DepositUpdated") >>

\* A chain with logs that lack a transaction hash, carry a negative index or
\* do not decode.
ChainLogsOdd ==
  << RawLog("p1", "", Num(0), Undef, 1, "DepositOperation"),
     RawLog("p1", "t1", Num(-2), Num(3), 1, "DepositUpdated"),
     RawLog("p1", "t2", Num(-2), Num(-2), 2, "DepositOperation"),
     RawLog("p1", "t3", Num(0), Undef, 2, "throws"),
     RawLog("p1", "t4", Num(0), Undef, 2, "DepositOperation") >>

Range(seq) == {seq[i] : i \in 1..Len(seq)}

\* what provider.getLogs may answer for a filter: the chain's logs of the
\* address within [from, to], or, where a reorganisation may have dropped
\* some, any of them
LogAnswers(address, from, to) ==
  LET inWindow == {lg \in Range(cfg.chain) :
                     /\ lg.address = address
                     /\ from <= lg.blockNumber /\ lg.blockNumber <= to}
  IN IF cfg.reorgs
     THEN {SelectSeq(cfg.chain, LAMBDA lg : lg \in sub) : sub \in SUBSET inWindow}
     ELSE {SelectSeq(cfg.chain, LAMBDA lg : lg \in inWindow)}

\* the errors provider.getLogs may reject with, by what the two classifiers
\* read in the message: a rate-limit pattern, and the N of "retry in N s"
\* (Null: no such text)
Errors == [rateLimit : BOOLEAN, retryIn : {Null, 0, 2}]

NoError == [rateLimit |-> FALSE, retryIn |-> Null]
NoRes == [ok |-> FALSE, logs |-> <<>>, error |-> NoError]

parseRetryAfterMs(err) ==
  IF err.retryIn = Null THEN Null
  ELSE IF err.retryIn > 0 THEN err.retryIn * 1000 ELSE Null

isRateLimitError(err) == err.rateLimit

\* ---------------------------------------------------------------- the lock
\* fs.mkdirSync and fs.openSync(lockPath, "wx") of acquireLock may fail for
\* reasons of their own
FsAnswers == {"ok", "mkdirFails", "openFails"}

\* faulty variant: the file is opened with "w", an existing file gives way
acquireLockOverwrites(files, name, who, fs) ==
  IF fs = "ok" THEN [files |-> [files EXCEPT ![name] = who], lockPath |-> name]
  ELSE [files |-> files, lockPath |-> NoLock]

\* acquireLock(name) by process who: the lock files afterwards and the
\* lockPath returned
acquireLock(files, name, who, fs) ==
  IF fs = "mkdirFails" THEN [files |-> files, lockPath |-> NoLock]
  ELSE IF files[name] # NoFile THEN [files |-> files, lockPath |-> NoLock]
  ELSE IF fs = "openFails" THEN [files |-> files, lockPath |-> NoLock]
  ELSE [files |-> [files EXCEPT ![name] = who], lockPath |-> name]

\* faulty variant: the file at lockPath stays
releaseLockKeepsFile(files, path) == files

\* releaseLock(lockPath): the lock files afterwards
releaseLock(files, path) ==
  IF path = NoLock THEN files ELSE [files EXCEPT ![path] = NoFile]

\* ------------------------------------------------------------ cursor store
ensureCursor(cs, cursorKey, start) ==
  IF cs[cursorKey].present THEN cs
  ELSE [cs EXCEPT ![cursorKey] =
          [present |-> TRUE, start_block |-> start, last_scanned_block |-> 0]]

updateCursor(cs, cursorKey, lastBlock) ==
  IF cs[cursorKey].present
  THEN [cs EXCEPT ![cursorKey].last_scanned_block = lastBlock]
  ELSE cs

\* the intervals S with the blocks a .. z added
AddWindow(S, a, z) ==
  LET touch == {iv \in S : iv[1] <= z + 1 /\ a <= iv[2] + 1}
      lo == IF \E iv \in touch : iv[1] < a THEN (CHOOSE iv \in touch : iv[1] < a)[1] ELSE a
      hi == IF \E iv \in touch : iv[2] > z THEN (CHOOSE iv \in touch : iv[2] > z)[2] ELSE z
  IN (S \ touch) \cup {<<lo, hi>>}

\* the history after a window a .. z of the key was fetched and committed;
\* it is kept under the settings that ask for it (cfg.history)
Covering(cov, cursorKey, a, z) ==
  IF cfg.history THEN [cov EXCEPT ![cursorKey] = AddWindow(@, a, z)] ELSE cov

\* faulty variant: the overlap is not subtracted
EffectiveStartNoOverlap(start, last, overlap) ==
  IF last > 0 THEN Max(start, last) ELSE start

\* faulty variant: the result is not bounded below by start_block
EffectiveStartNoFloor(start, last, overlap) ==
  IF last > 0 THEN last - overlap ELSE start

\* fromBlock of a scan
EffectiveStart(start, last, overlap) ==
  IF last > 0 THEN Max(start, last - overlap) ELSE start

\* faulty variant: the window is not cut at the head block
ToBlockNoClamp(blk, latest, window) == blk + window

\* toBlock of the window starting at blk
ToBlock(blk, latest, window) == Min(blk + window, latest)

scanWindowCount(from, latest, maxBlocks) ==
  LET n == latest - from + 1
      d == maxBlocks + 1
  IN IF n % d = 0 THEN n \div d ELSE (n \div d) + 1

\* ------------------------------------------------------------ event tables
SameKey(r1, r2) ==
  r1.pool_key = r2.pool_key /\ r1.tx_hash = r2.tx_hash /\ r1.log_index = r2.log_index

\* faulty variant: INSERT OR REPLACE, the stored row gives way to the new one
insertOrReplace(rows, row) ==
  Append(SelectSeq(rows, LAMBDA r : ~SameKey(r, row)), row)

\* faulty variant: a plain INSERT into a table without the UNIQUE constraint
insertAlways(rows, row) == Append(rows, row)

\* faulty variant: ON CONFLICT DO UPDATE SET block_timestamp =
\* COALESCE(block_timestamp, excluded.block_timestamp)
insertOrFillTimestamp(rows, row) ==
  IF \E i \in 1..Len(rows) : SameKey(rows[i], row)
  THEN [i \in 1..Len(rows) |->
          IF SameKey(rows[i], row) /\ rows[i].block_timestamp = Null
          THEN [rows[i] EXCEPT !.block_timestamp = row.block_timestamp] ELSE rows[i]]
  ELSE Append(rows, row)

\* INSERT ... ON CONFLICT(pool_key, tx_hash, log_index) DO NOTHING
insertOrIgnore(rows, row) ==
  IF \E i \in 1..Len(rows) : SameKey(rows[i], row) THEN rows ELSE Append(rows, row)

Row(pool, e) ==
  [pool_key |-> pool, block_number |-> e.blockNumber,
   block_timestamp |-> e.blockTimestamp, tx_hash |-> e.txHash, log_index |-> e.logIndex]

\* the transaction of one window: every item inserted, in order
RECURSIVE commit(_, _, _)
commit(tabs, pool, items) ==
  IF items = <<>> THEN tabs
  ELSE LET e == Head(items)
           t == TableOf(e.kind)
       IN commit([tabs EXCEPT ![t] = insertOrIgnore(tabs[t], Row(pool, e))], pool, Tail(items))

\* ------------------------------------------------------------ the decoder
\* Number.isInteger(v)
isInteger(v) == v.type = "number" /\ v.int

\* the value of a character as a digit, 99 for what is no digit in any radix
DigitOf(c) ==
  CASE c = "0" -> 0 [] c = "1" -> 1 [] c = "2" -> 2 [] c = "3" -> 3 [] c = "4" -> 4
    [] c = "5" -> 5 [] c = "6" -> 6 [] c = "7" -> 7 [] c = "8" -> 8 [] c = "9" -> 9
    [] c \in {"a", "A"} -> 10 [] c \in {"b", "B"} -> 11 [] c \in {"c", "C"} -> 12
    [] c \in {"d", "D"} -> 13 [] c \in {"e", "E"} -> 14 [] c \in {"f", "F"} -> 15
    [] OTHER -> 99

RECURSIVE StripSpace(_)
StripSpace(s) == IF s # <<>> /\ Head(s) = " " THEN StripSpace(Tail(s)) ELSE s

\* the number the longest prefix of digits of s stands for, continuing acc
RECURSIVE ParseDigits(_, _, _)
ParseDigits(s, radix, acc) ==
  IF s = <<>> \/ DigitOf(Head(s)) >= radix THEN acc
  ELSE ParseDigits(Tail(s), radix, acc * radix + DigitOf(Head(s)))

\* Number.parseInt(string, radix) for radix 10 and 16: white space and a sign
\* are skipped, with radix 16 a leading "0x" or "0X" as well, the longest
\* prefix of digits is read, and the result is NaN when that prefix is empty
parseInt(str, radix) ==
  LET s0 == StripSpace(str)
      neg == s0 # <<>> /\ Head(s0) = "-"
      s1 == IF s0 # <<>> /\ Head(s0) \in {"+", "-"} THEN Tail(s0) ELSE s0
      s2 == IF radix = 16 /\ Len(s1) >= 2 /\ s1[1] = "0" /\ s1[2] \in {"x", "X"}
            THEN Tail(Tail(s1)) ELSE s1
  IN IF s2 = <<>> \/ DigitOf(Head(s2)) >= radix THEN NaN
     ELSE Num((IF neg THEN -1 ELSE 1) * ParseDigits(s2, radix, 0))

\* faulty variant: a string is always parsed with radix 10
getStableLogIndexDecimal(lg) ==
  IF lg.index.type = "number" /\ lg.index.int /\ lg.index.num >= 0 THEN lg.index.num
  ELSE LET li == lg.logIndex
       IN IF li.type = "number" /\ li.int /\ li.num >= 0 THEN li.num
          ELSE IF li.type = "string"
          THEN LET n == parseInt(li.str, 10)
               IN IF n.int /\ n.num >= 0 THEN n.num ELSE Null
          ELSE Null

\* li.startsWith("0x")
startsWith0x(s) == Len(s) >= 2 /\ s[1] = "0" /\ s[2] = "x"

getStableLogIndex(lg) ==
  IF isInteger(lg.index) /\ lg.index.num >= 0 THEN lg.index.num
  ELSE LET li == lg.logIndex
       IN IF li.type = "number" /\ isInteger(li) /\ li.num >= 0 THEN li.num
          ELSE IF li.type = "string"
          THEN LET n == IF startsWith0x(li.str) THEN parseInt(li.str, 16)
                        ELSE parseInt(li.str, 10)
               IN IF isInteger(n) /\ n.num >= 0 THEN n.num ELSE Null
          ELSE Null

\* faulty variant: a block number is pushed once for every log that carries it
RECURSIVE uniqueBlocksRepeated(_)
uniqueBlocksRepeated(logs) ==
  IF logs = <<>> THEN <<>>
  ELSE IF Head(logs).blockNumber = Null THEN uniqueBlocksRepeated(Tail(logs))
  ELSE <<Head(logs).blockNumber>> \o uniqueBlocksRepeated(Tail(logs))

\* the first loop of resolveBlockTimestamps from some log on, acc being
\* uniqueBlocks so far (seen holds the same numbers)
RECURSIVE uniqueBlocksFrom(_, _)
uniqueBlocksFrom(logs, acc) ==
  IF logs = <<>> THEN acc
  ELSE LET bn == Head(logs).blockNumber
       IN IF bn = Null THEN uniqueBlocksFrom(Tail(logs), acc)
          ELSE IF bn \in Range(acc) THEN uniqueBlocksFrom(Tail(logs), acc)
          ELSE uniqueBlocksFrom(Tail(logs), Append(acc, bn))

\* uniqueBlocks of resolveBlockTimestamps
uniqueBlocks(logs) == uniqueBlocksFrom(logs, <<>>)

\* the blocks resolveBlockTimestamps looks up
UniqueBlocks(logs) == Range(uniqueBlocks(logs))

\* map.set(bn, ts) on a Map given by its entries in insertion order
mapSet(m, bn, ts) ==
  IF \E i \in 1..Len(m) : m[i][1] = bn
  THEN [i \in 1..Len(m) |-> IF m[i][1] = bn THEN <<bn, ts>> ELSE m[i]]
  ELSE Append(m, <<bn, ts>>)

\* the answers provider.getBlock may give for each of them without throwing:
\* a block with its timestamp, or null
BlockAnswers(logs) == [UniqueBlocks(logs) -> {"block", "null"}]

\* the Map resolveBlockTimestamps returns for these answers
resolveBlockTimestamps(logs, answers) ==
  [bn \in {x \in UniqueBlocks(logs) : answers[x] = "block"} |-> bn + 1]

\* blockTsMap.get(bn) ?? null
TsGet(blockTsMap, bn) == IF bn \in DOMAIN blockTsMap THEN blockTsMap[bn] ELSE Null

Event(kind, lg, blockTsMap) ==
  [kind |-> kind, blockNumber |-> lg.blockNumber,
   blockTimestamp |-> TsGet(blockTsMap, lg.blockNumber),
   txHash |-> lg.transactionHash, logIndex |-> getStableLogIndex(lg)]

\* the loop over res.logs of scanPool: the items of one log
decodeLog(lg, blockTsMap) ==
  IF getStableLogIndex(lg) = Null THEN <<>>
  ELSE IF lg.transactionHash = "" THEN <<>>
  ELSE IF lg.name = "throws" THEN <<>>
  ELSE IF lg.name = "DepositOperation" THEN <<Event("op", lg, blockTsMap)>>
  ELSE IF lg.name = "DepositUpdated" THEN <<Event("update", lg, blockTsMap)>>
  ELSE <<>>

\* faulty variant: a log that yields no item ends the loop (break for
\* continue)
RECURSIVE decodeBreaking(_, _)
decodeBreaking(logs, blockTsMap) ==
  IF logs = <<>> THEN <<>>
  ELSE IF decodeLog(Head(logs), blockTsMap) = <<>> THEN <<>>
  ELSE decodeLog(Head(logs), blockTsMap) \o decodeBreaking(Tail(logs), blockTsMap)

RECURSIVE decode(_, _)
decode(logs, blockTsMap) ==
  IF logs = <<>> THEN <<>>
  ELSE decodeLog(Head(logs), blockTsMap) \o decode(Tail(logs), blockTsMap)

\* ---------------------------------------------------- main() and scanPool
\* Each operator is the synchronous code that runs from one point of the
\* source up to the next await, as a function of the state.

\* process.exit(code), or the end of main(), in a process that registered
\* its handlers: the 'exit' listener releases the lock and the process is
\* gone
exit(st, code) ==
  [st EXCEPT !.pc = "exited", !.exitCode = code,
             !.lockFiles = releaseLock(st.lockFiles, st.lockPath)]

\* the head of scanPool, up to await provider.getBlockNumber()
beginScan(st, i) ==
  LET cursorKey == CursorKey(cfg.pools[i])
      cs == ensureCursor(st.cursors, cursorKey, cfg.start)
  IN [st EXCEPT !.scan = i, !.cursors = cs,
                !.startBlock = cs[cursorKey].start_block,
                !.lastScanned = cs[cursorKey].last_scanned_block,
                !.latestBlock = 0, !.fromBlock = 0, !.b = 0, !.lastGoodBlock = 0,
                !.windowIndex = 0, !.attempt = 0, !.backoffMs = 0, !.sleepMs = 0,
                !.res = NoRes, !.events = <<>>, !.calls = 0, !.committed = <<>>,
                !.caught = <<>>, !.pc = "getBlockNumber"]

\* faulty variant: main() ends behind the first scanPool that returns
scanReturnedEnds(st) == exit(st, 0)

\* main() after scanPool has returned: the next pool, or finally db.close()
\* and the end of main()
scanReturned(st) ==
  IF st.scan < Len(cfg.pools) THEN beginScan(st, st.scan + 1) ELSE exit(st, 0)

\* faulty variant: the cursor is set to the head block, not to lastGoodBlock
afterLoopLatest(st) ==
  scanReturned(
    IF st.lastGoodBlock >= st.fromBlock
    THEN [st EXCEPT !.cursors = updateCursor(st.cursors, CursorKey(cfg.pools[st.scan]), st.latestBlock),
                    !.updates = st.updates + 1]
    ELSE st)

\* after the for loop of scanPool
afterLoop(st) ==
  scanReturned(
    IF st.lastGoodBlock >= st.fromBlock
    THEN [st EXCEPT !.cursors = updateCursor(st.cursors, CursorKey(cfg.pools[st.scan]), st.lastGoodBlock),
                    !.updates = st.updates + 1]
    ELSE st)

\* faulty variant: a failed fetch is thrown on to main()
afterGetLogsFatal(st) ==
  IF ~st.res.ok THEN exit(st, 1) ELSE [st EXCEPT !.pc = "getBlock"]

\* the caller of getLogsWithRetry once it has returned st.res, up to the
\* lookups of resolveBlockTimestamps
afterGetLogs(st) ==
  IF ~st.res.ok THEN afterLoop(st) ELSE [st EXCEPT !.pc = "getBlock"]

\* the while loop of getLogsWithRetry at its test
whileAttempt(st) ==
  IF st.attempt < DefaultMaxAttempts
  THEN [st EXCEPT !.attempt = st.attempt + 1, !.calls = st.calls + 1, !.caught = <<>>,
                  !.pc = "getLogs"]
  ELSE afterGetLogs([st EXCEPT !.res = NoRes])

\* faulty variant: every error ends getLogsWithRetry at once
catchGetLogsGiveUp(st, err) ==
  afterGetLogs([st EXCEPT !.caught = <<err>>,
                          !.res = [ok |-> FALSE, logs |-> <<>>, error |-> err]])

\* faulty variant: every error is retried while attempts are left
catchGetLogsRetryAll(st, err) ==
  LET retryAfter == parseRetryAfterMs(err)
  IN IF st.attempt >= DefaultMaxAttempts
     THEN afterGetLogs([st EXCEPT !.caught = <<err>>,
                                  !.res = [ok |-> FALSE, logs |-> <<>>, error |-> err]])
     ELSE [st EXCEPT !.caught = <<err>>,
                     !.sleepMs = IF retryAfter # Null THEN retryAfter ELSE st.backoffMs,
                     !.pc = "sleep"]

\* the catch block of getLogsWithRetry
catchGetLogs(st, err) ==
  LET retryAfter == parseRetryAfterMs(err)
      shouldRetry == isRateLimitError(err) \/ retryAfter # Null
  IN IF ~shouldRetry \/ st.attempt >= DefaultMaxAttempts
     THEN afterGetLogs([st EXCEPT !.caught = <<err>>,
                                  !.res = [ok |-> FALSE, logs |-> <<>>, error |-> err]])
     ELSE [st EXCEPT !.caught = <<err>>,
                     !.sleepMs = IF retryAfter # Null THEN retryAfter ELSE st.backoffMs,
                     !.pc = "sleep"]

\* faulty variant: the backoff doubles without the cap
afterSleepNoCap(st) ==
  whileAttempt([st EXCEPT !.backoffMs = st.backoffMs * 2, !.sleepMs = 0])

\* after the sleep of getLogsWithRetry
afterSleep(st) ==
  whileAttempt([st EXCEPT !.backoffMs = Min(st.backoffMs * 2, MaxBackoffMs), !.sleepMs = 0])

\* the for loop of scanPool at its test, with b = blk
forWindow(st, blk) ==
  IF blk <= st.latestBlock
  THEN whileAttempt([st EXCEPT !.b = blk, !.windowIndex = st.windowIndex + 1,
                               !.attempt = 0, !.backoffMs = BaseBackoffMs,
                               !.calls = 0, !.res = NoRes, !.events = <<>>,
                               !.caught = <<>>])
  ELSE afterLoop([st EXCEPT !.b = blk])

\* faulty variant: a target ahead of the head has its cursor set back to the
\* head
afterGetBlockNumberClamping(st, latest) ==
  LET from == EffectiveStart(st.startBlock, st.lastScanned, cfg.overlap)
      st1 == [st EXCEPT !.latestBlock = latest, !.fromBlock = from]
  IN IF from > latest
     THEN scanReturned([st1 EXCEPT !.cursors = updateCursor(st.cursors, CursorKey(cfg.pools[st.scan]), latest),
                                   !.updates = st.updates + 1])
     ELSE forWindow([st1 EXCEPT !.lastGoodBlock = from - 1, !.windowIndex = 0], from)

\* scanPool after await provider.getBlockNumber() gave latest
afterGetBlockNumber(st, latest) ==
  LET from == EffectiveStart(st.startBlock, st.lastScanned, cfg.overlap)
      st1 == [st EXCEPT !.latestBlock = latest, !.fromBlock = from]
  IN IF from > latest THEN scanReturned(st1)
     ELSE forWindow([st1 EXCEPT !.lastGoodBlock = from - 1, !.windowIndex = 0], from)

\* faulty variant: the increment leaves a block out between two windows
nextWindowSkipping(st) == forWindow(st, st.b + cfg.window + 2)

\* the for loop's increment after a window's body
nextWindow(st) == forWindow(st, st.b + cfg.window + 1)

\* faulty variant: the cursor is written in the body of the loop, window by
\* window
processWindowAdvancing(st, blockTsMap) ==
  LET toBlock == ToBlock(st.b, st.latestBlock, cfg.window)
      items == decode(st.res.logs, blockTsMap)
      st1 == [st EXCEPT !.events = items,
                        !.tables = IF Len(items) > 0 THEN commit(st.tables, cfg.pools[st.scan], items) ELSE st.tables,
                        !.lastGoodBlock = toBlock,
                        !.cursors = updateCursor(st.cursors, CursorKey(cfg.pools[st.scan]), toBlock),
                        !.updates = st.updates + 1,
                        !.covered = Covering(st.covered, CursorKey(cfg.pools[st.scan]), st.b, toBlock),
                        !.committed = Append(st.committed, <<st.b, toBlock>>)]
  IN IF cfg.pause > 0 THEN [st1 EXCEPT !.pc = "pause"] ELSE nextWindow(st1)

\* the body of the for loop after resolveBlockTimestamps returned blockTsMap:
\* decode, commit, lastGoodBlock, and the pause if one is configured
processWindow(st, blockTsMap) ==
  LET toBlock == ToBlock(st.b, st.latestBlock, cfg.window)
      items == decode(st.res.logs, blockTsMap)
      st1 == [st EXCEPT !.events = items,
                        !.tables = IF Len(items) > 0 THEN commit(st.tables, cfg.pools[st.scan], items) ELSE st.tables,
                        !.lastGoodBlock = toBlock,
                        !.covered = Covering(st.covered, CursorKey(cfg.pools[st.scan]), st.b, toBlock),
                        !.committed = Append(st.committed, <<st.b, toBlock>>)]
  IN IF cfg.pause > 0 THEN [st1 EXCEPT !.pc = "pause"] ELSE nextWindow(st1)

\* faulty variant: the rows inserted before the failing one stay
withoutRollback(tabs, pool, items, failAt) ==
  commit(tabs, pool, SubSeq(items, 1, failAt - 1))

\* the tables after a transaction whose insert number failAt threw:
\* db.transaction rolls back
rolledBack(tabs, pool, items, failAt) == tabs

\* faulty variant: the cursor is written before the transaction is run
commitThrowsAdvanced(st, blockTsMap, failAt) ==
  LET items == decode(st.res.logs, blockTsMap)
      toBlock == ToBlock(st.b, st.latestBlock, cfg.window)
  IN exit([st EXCEPT !.events = items,
                     !.cursors = updateCursor(st.cursors, CursorKey(cfg.pools[st.scan]), toBlock),
                     !.updates = st.updates + 1], 1)

\* the body of the for loop when the transaction throws at its insert number
\* failAt: scanPool rejects, main() closes the database and rejects, and the
\* catch of main() exits with code 1
commitThrows(st, blockTsMap, failAt) ==
  LET items == decode(st.res.logs, blockTsMap)
  IN exit([st EXCEPT !.events = items,
                     !.tables = rolledBack(st.tables, cfg.pools[st.scan], items, failAt)], 1)

\* main() up to await provider.getNetwork(), fs being what the file system
\* answers in acquireLock
main(st, fs) ==
  LET a == acquireLock(st.lockFiles, "scan-stability-pool", "scanner", fs)
      st1 == [st EXCEPT !.lockFiles = a.files, !.lockPath = a.lockPath]
  IN IF a.lockPath = NoLock THEN [st1 EXCEPT !.pc = "exited", !.exitCode = 0]
     ELSE IF Len(cfg.pools) = 0 THEN exit(st1, 1)
     ELSE [st1 EXCEPT !.pc = "getNetwork"]

\* the SIGINT and SIGTERM handlers up to their process.exit: safeRelease().
\* The pending await is never resumed, so the locals of getLogsWithRetry and
\* of the body of the loop are dead from here on.
onSignal(st, signal) ==
  [st EXCEPT !.lockFiles = releaseLock(st.lockFiles, st.lockPath), !.pc = signal,
             !.attempt = 0, !.backoffMs = 0, !.sleepMs = 0, !.calls = 0,
             !.caught = <<>>, !.res = NoRes, !.events = <<>>]

\* ------------------------------------------------------------- the actions
\* the environments: the scanner on its own under every setting, and beside
\* other scanner processes under one setting
Configs ==
  [pools : {<<>>, <<"p1">>}, start : {0, 1}, overlap : 0..MaxOverlap,
   window : 0..MaxWindow, pause : {0, 1}, heads : {0..MaxHead}, chain : {ChainLogs},
   reorgs : {TRUE}, others : {FALSE}, history : {FALSE}]
  \cup
  [pools : {<<"p1">>}, start : {0}, overlap : {1}, window : {1}, pause : {0, 1},
   heads : {{1, 2}}, chain : {ChainLogs}, reorgs : {TRUE}, others : {TRUE}, history : {FALSE}]

\* no scanner process has run yet
NoProcess ==
  /\ pc = "idle"
  /\ exitCode = Null
  /\ scan = 0 /\ startBlock = 0 /\ lastScanned = 0 /\ latestBlock = 0 /\ fromBlock = 0
  /\ b = 0 /\ lastGoodBlock = 0 /\ windowIndex = 0 /\ attempt = 0 /\ backoffMs = 0
  /\ sleepMs = 0 /\ res = NoRes /\ events = <<>> /\ calls = 0 /\ committed = <<>>
  /\ lockPath = NoLock /\ caught = <<>> /\ updates = 0
  /\ other = NoLock
  /\ blocks = <<>> /\ lookups = <<>> /\ pending = {} /\ tsMap = <<>>
  /\ lockFiles = [n \in LockNames |-> NoFile]

\* an empty store (initSchema on a new database file)
Init ==
  /\ cfg \in Configs
  /\ cursors = [k \in CursorKeys |-> NoCursor]
  /\ covered = [k \in CursorKeys |-> {}]
  /\ tables = [t \in TableNames |-> <<>>]
  /\ NoProcess

\* the points where main() is suspended on a promise
AwaitPcs == {"getNetwork", "getBlockNumber", "getLogs", "sleep", "getBlock", "pause"}

\* a scanner process is started (cron, scanAll): main() up to
\* await provider.getNetwork()
Start ==
  /\ pc \in {"idle", "exited", "killed"}
  /\ \E fs \in FsAnswers :
       Set(main([Cur EXCEPT !.exitCode = Null, !.scan = 0, !.lockPath = NoLock,
                            !.startBlock = 0, !.lastScanned = 0, !.latestBlock = 0,
                            !.fromBlock = 0, !.b = 0, !.lastGoodBlock = 0, !.windowIndex = 0,
                            !.attempt = 0, !.backoffMs = 0, !.sleepMs = 0, !.res = NoRes,
                            !.events = <<>>, !.calls = 0, !.committed = <<>>,
                            !.caught = <<>>, !.updates = 0], fs))

\* getNetwork answers: openDb, loadWallets, and the scan of the first pool
NetworkReady ==
  /\ pc = "getNetwork"
  /\ Set(beginScan(Cur, 1))

\* getNetwork or getBlockNumber rejects: main() rejects, its catch logs
\* FATAL and calls process.exit(1)
ProviderThrows ==
  /\ pc \in {"getNetwork", "getBlockNumber"}
  /\ Set(exit(Cur, 1))

\* one of the provider.getBlock lookups of resolveBlockTimestamps rejects:
\* Promise.all rejects, nothing catches it below the catch of main()
GetBlockThrows ==
  /\ pc = "getBlock"
  /\ UniqueBlocks(res.logs) # {}
  /\ Set(exit(Cur, 1))

GotBlockNumber ==
  /\ pc = "getBlockNumber"
  /\ \E latest \in cfg.heads : Set(afterGetBlockNumber(Cur, latest))

GetLogsOk ==
  /\ pc = "getLogs"
  /\ \E logs \in LogAnswers(cfg.pools[scan], b, ToBlock(b, latestBlock, cfg.window)) :
       Set(afterGetLogs([Cur EXCEPT !.res = [ok |-> TRUE, logs |-> logs, error |-> NoError]]))

GetLogsThrows ==
  /\ pc = "getLogs"
  /\ \E err \in Errors : Set(catchGetLogs(Cur, err))

SleepDone ==
  /\ pc = "sleep"
  /\ Set(afterSleep(Cur))

BlocksResolved ==
  /\ pc = "getBlock"
  /\ \E answers \in BlockAnswers(res.logs) :
       Set(processWindow(Cur, resolveBlockTimestamps(res.logs, answers)))

\* the transaction of the window throws at one of its inserts
CommitThrows ==
  /\ pc = "getBlock"
  /\ \E answers \in BlockAnswers(res.logs) :
       LET blockTsMap == resolveBlockTimestamps(res.logs, answers)
       IN \E failAt \in 1..Len(decode(res.logs, blockTsMap)) :
            Set(commitThrows(Cur, blockTsMap, failAt))

PauseDone ==
  /\ pc = "pause"
  /\ Set(nextWindow(Cur))

\* SIGINT or SIGTERM while main() is suspended: the handler releases the lock
Signal ==
  /\ pc \in AwaitPcs
  /\ \E signal \in {"SIGINT", "SIGTERM"} : Set(onSignal(Cur, signal))

\* the handler's process.exit(130) or process.exit(143)
SignalExit ==
  /\ pc \in {"SIGINT", "SIGTERM"}
  /\ Set(exit(Cur, IF pc = "SIGINT" THEN ExitSigint ELSE ExitSigterm))

\* an other scanner process (scanTroves.js, or one more scanStabilityPool.js)
\* is started and runs acquireLock; its scan is not followed
OtherStart ==
  /\ cfg.others
  /\ other = NoLock
  /\ \E name \in LockNames, fs \in FsAnswers :
       LET a == acquireLock(lockFiles, name, "other", fs)
       IN /\ lockFiles' = a.files
          /\ other' = a.lockPath
  /\ UNCHANGED <<cfg, lockPath, caught, cursors, tables, pc, exitCode, scan, startBlock,
                 lastScanned, latestBlock, fromBlock, b, lastGoodBlock, windowIndex,
                 attempt, backoffMs, sleepMs, res, events, calls, committed, updates,
                 covered, blocks, lookups, pending, tsMap>>

\* the other scanner process ends and its 'exit' listener releases its lock
OtherExit ==
  /\ other # NoLock
  /\ lockFiles' = releaseLock(lockFiles, other)
  /\ other' = NoLock
  /\ UNCHANGED <<cfg, lockPath, caught, cursors, tables, pc, exitCode, scan, startBlock,
                 lastScanned, latestBlock, fromBlock, b, lastGoodBlock, windowIndex,
                 attempt, backoffMs, sleepMs, res, events, calls, committed, updates,
                 covered, blocks, lookups, pending, tsMap>>

Next ==
  \/ Start \/ NetworkReady \/ ProviderThrows \/ GotBlockNumber
  \/ GetLogsOk \/ GetLogsThrows \/ SleepDone \/ BlocksResolved \/ GetBlockThrows
  \/ CommitThrows \/ PauseDone \/ Signal \/ SignalExit \/ OtherStart \/ OtherExit

Spec == Init /\ [][Next]_vars

\* The same scanner under the settings of the scenario of the specification
\* (window size 499, overlap 5, head block 2000), from a new store or from
\* one whose cursor stands at block 1000.
ScenarioConfigs ==
  [pools : {<<"p1">>}, start : {0, 998}, overlap : {0, 5}, window : {499}, pause : {0, 1},
   heads : {{2000}}, chain : {ChainLogs}, reorgs : {TRUE}, others : BOOLEAN, history : {FALSE}]

InitScenario ==
  /\ cfg \in ScenarioConfigs
  /\ cursors \in {[k \in CursorKeys |-> NoCursor],
                  [k \in CursorKeys |->
                     [present |-> TRUE, start_block |-> cfg.start, last_scanned_block |-> 1000]]}
  /\ covered = [k \in CursorKeys |->
                  IF cursors[k].present THEN {<<cfg.start, 1000>>} ELSE {}]
  /\ tables = [t \in TableNames |-> <<>>]
  /\ NoProcess

SpecScenario == InitScenario /\ [][Next]_vars

\* The same scanner over chains that hold malformed logs, served as they are.
DecodeConfigs ==
  [pools : {<<"p1">>}, start : {0, 1}, overlap : {0, 1}, window : {0, 1}, pause : {0, 1},
   heads : {{2}}, chain : {ChainLogsTen, ChainLogsOdd}, reorgs : {FALSE}, others : BOOLEAN, history : {FALSE}]

InitDecode ==
  /\ cfg \in DecodeConfigs
  /\ cursors = [k \in CursorKeys |-> NoCursor]
  /\ covered = [k \in CursorKeys |-> {}]
  /\ tables = [t \in TableNames |-> <<>>]
  /\ NoProcess

SpecDecode == InitDecode /\ [][Next]_vars

\* The same scanner over two pools.
PoolsConfigs ==
  [pools : {Pools}, start : {0}, overlap : {0, 1}, window : {0, 1}, pause : {0, 1},
   heads : {{2}}, chain : {ChainLogsPools}, reorgs : {TRUE}, others : {FALSE}, history : {FALSE}]
  \cup
  [pools : {Pools}, start : {0}, overlap : {0}, window : {1}, pause : {0},
   heads : {{2}}, chain : {ChainLogsPools}, reorgs : {TRUE}, others : {TRUE}, history : {FALSE}]

InitPools ==
  /\ cfg \in PoolsConfigs
  /\ cursors = [k \in CursorKeys |-> NoCursor]
  /\ covered = [k \in CursorKeys |-> {}]
  /\ tables = [t \in TableNames |-> <<>>]
  /\ NoProcess

SpecPools == InitPools /\ [][Next]_vars

\* The values of the two index fields the decoder is given: nothing, numbers
\* (3, 0, -2, 1.5 ...) and strings.
IndexSamples == {Undef, Num(3), Num(0), Num(-2), Frac(1), Str(<<"4">>)}

LogIndexSamples ==
  {Undef, Num(5), Num(-1), Frac(2)}
  \cup {Str(s) : s \in {<<"7">>, <<"1", "2">>, <<"0", "x", "1", "f">>, <<"0", "x", "0">>,
                         <<"0", "x">>, <<>>, <<"-", "3">>, <<"a", "b", "c">>,
                         <<"0", "x", "g">>, <<"7", "z">>, <<" ", "5">>, <<"+", "2">>,
                         <<"1", ".", "5">>, <<"0", "X", "1", "F">>}}

\* The same scanner over chains of one log, one chain for every pair of
\* values of index and logIndex.
IndexConfigs ==
  [pools : {<<"p1">>}, start : {1}, overlap : {0}, window : {0}, pause : {0},
   heads : {{1}},
   chain : {<<RawLog("p1", "t1", i, li, 1, "DepositOperation")>> :
              i \in IndexSamples, li \in LogIndexSamples},
   reorgs : {FALSE}, others : {FALSE}, history : {FALSE}]
  \cup
  [pools : {<<"p1">>}, start : {1}, overlap : {0}, window : {0}, pause : {1},
   heads : {{1}},
   chain : {<<RawLog("p1", "t1", Undef, Str(<<"0", "x", "1", "f">>), 1, "DepositOperation")>>},
   reorgs : {FALSE}, others : {TRUE}, history : {FALSE}]

InitIndex ==
  /\ cfg \in IndexConfigs
  /\ cursors = [k \in CursorKeys |-> NoCursor]
  /\ covered = [k \in CursorKeys |-> {}]
  /\ tables = [t \in TableNames |-> <<>>]
  /\ NoProcess

SpecIndex == InitIndex /\ [][Next]_vars

\* ------------------------------------------------- resetDatum and SIGKILL
\* faulty variant: the two cursor tables are left out of the statements
resetDatumKeepsCursors(st) ==
  [st EXCEPT !.tables = [t \in TableNames |-> <<>>],
             !.covered = [k \in CursorKeys |-> {}]]

\* main() of resetDatum.js: db.exec of the DELETE statements
resetDatum(st) ==
  [st EXCEPT !.cursors = [k \in CursorKeys |-> NoCursor],
             !.tables = [t \in TableNames |-> <<>>],
             !.covered = [k \in CursorKeys |-> {}]]

\* resetDatum.js is run; it takes no lock and asks for no scanner state
Reset ==
  /\ resetDatum(Cur) # Cur
  /\ Set(resetDatum(Cur))

\* the scanner process is ended by SIGKILL or dies of a crash: no handler and
\* no 'exit' listener runs, the lock file stays
Kill ==
  /\ pc \in AwaitPcs \cup {"SIGINT", "SIGTERM"}
  /\ Set([Cur EXCEPT !.pc = "killed", !.attempt = 0, !.backoffMs = 0, !.sleepMs = 0,
                      !.calls = 0, !.caught = <<>>, !.res = NoRes, !.events = <<>>])

\* The scanner beside resets and kills, with the history of committed windows
\* kept.
OpsConfigs ==
  [pools : {<<"p1">>}, start : {0, 1}, overlap : 0..MaxOverlap, window : 0..MaxWindow,
   pause : {0}, heads : {{1, 2, 3}}, chain : {ChainLogs}, reorgs : {TRUE},
   others : {FALSE}, history : {TRUE}]
  \cup
  [pools : {<<"p1">>}, start : {0}, overlap : {1}, window : {1}, pause : {1},
   heads : {{2}}, chain : {ChainLogs}, reorgs : {FALSE}, others : {TRUE}, history : {TRUE}]

InitOps ==
  /\ cfg \in OpsConfigs
  /\ cursors = [k \in CursorKeys |-> NoCursor]
  /\ covered = [k \in CursorKeys |-> {}]
  /\ tables = [t \in TableNames |-> <<>>]
  /\ NoProcess

NextOps == Next \/ Reset \/ Kill

SpecOps == InitOps /\ [][NextOps]_vars

\* ------------------------------------------------- runs without a failure
\* The runs in which every getLogsWithRetry succeeds within its attempts and
\* nothing throws or interrupts: a call of provider.getLogs is answered, or
\* rejected with an error that is retried while an attempt is left, and every
\* promise main() waits for settles in the end.
ProgressConfigs ==
  [pools : {<<"p1">>}, start : {0, 1}, overlap : 0..MaxOverlap, window : 0..MaxWindow,
   pause : {0, 1}, heads : {0..MaxHead}, chain : {ChainLogs}, reorgs : {TRUE},
   others : {FALSE}, history : {FALSE}]

InitProgress ==
  /\ cfg \in ProgressConfigs
  /\ cursors = [k \in CursorKeys |-> NoCursor]
  /\ covered = [k \in CursorKeys |-> {}]
  /\ tables = [t \in TableNames |-> <<>>]
  /\ NoProcess

\* a scanner process is started and the file system serves acquireLock
StartServed ==
  /\ pc \in {"idle", "exited"}
  /\ Set(main([Cur EXCEPT !.exitCode = Null, !.scan = 0, !.lockPath = NoLock,
                          !.startBlock = 0, !.lastScanned = 0, !.latestBlock = 0,
                          !.fromBlock = 0, !.b = 0, !.lastGoodBlock = 0, !.windowIndex = 0,
                          !.attempt = 0, !.backoffMs = 0, !.sleepMs = 0, !.res = NoRes,
                          !.events = <<>>, !.calls = 0, !.committed = <<>>,
                          !.caught = <<>>, !.updates = 0], "ok"))

\* provider.getLogs rejects with an error that getLogsWithRetry retries,
\* while an attempt is left
GetLogsRetried ==
  /\ pc = "getLogs"
  /\ attempt < DefaultMaxAttempts
  /\ \E err \in Errors :
       /\ isRateLimitError(err) \/ parseRetryAfterMs(err) # Null
       /\ Set(catchGetLogs(Cur, err))

\* main() is resumed from the await it is suspended on, at another await or
\* at its end
Resumes == pc \in AwaitPcs /\ pc' \in (AwaitPcs \cup {"exited"}) \ {pc}

NextProgress ==
  \/ StartServed \/ NetworkReady \/ GotBlockNumber \/ GetLogsOk \/ GetLogsRetried
  \/ SleepDone \/ BlocksResolved \/ PauseDone

\* every promise main() waits for settles in the end (the provider answers
\* or rejects, a timer fires), so main() does not stay suspended for ever
SpecProgress == InitProgress /\ [][NextProgress]_vars /\ WF_pc(Resumes)

\* ------------------------------------- resolveBlockTimestamps step by step
\* The lookups of one resolveBlockTimestamps(provider, res.logs) followed one
\* by one: the calls of provider.getBlock are made in the synchronous run of
\* uniqueBlocks.map, their promises settle in any order.

\* what provider.getBlock(bn) settles with: a block with an integer
\* timestamp, null, a block without one, or a rejection
BlockSamples == {"block", "null", "noTimestamp", "rejects"}

BlockNumbers == {1, 2}

RECURSIVE Batches(_)
Batches(n) ==
  IF n = 0 THEN {<<>>}
  ELSE Batches(n - 1) \cup
       {Append(logs, RawLog("p1", "t1", Num(0), Undef, bn, "DepositOperation")) :
          logs \in Batches(n - 1), bn \in BlockNumbers \cup {Null}}

\* scanPool is about to call resolveBlockTimestamps with the logs of a window
InitResolve ==
  /\ cfg \in [pools : {<<"p1">>}, start : {0}, overlap : {0}, window : {2}, pause : {0},
               heads : {{2}}, chain : {<<>>}, reorgs : {FALSE}, others : {FALSE},
               history : {FALSE}]
  /\ cursors = [k \in CursorKeys |->
                  IF k = CursorKey("p1")
                  THEN [present |-> TRUE, start_block |-> 0, last_scanned_block |-> 0]
                  ELSE NoCursor]
  /\ covered = [k \in CursorKeys |-> {}]
  /\ tables = [t \in TableNames |-> <<>>]
  /\ lockFiles = [n \in LockNames |->
                    IF n = "scan-stability-pool" THEN "scanner" ELSE NoFile]
  /\ lockPath = "scan-stability-pool" /\ other = NoLock
  /\ pc = "resolve" /\ exitCode = Null /\ scan = 1
  /\ startBlock = 0 /\ lastScanned = 0 /\ latestBlock = 2 /\ fromBlock = 0 /\ b = 0
  /\ lastGoodBlock = -1 /\ windowIndex = 1 /\ attempt = 1 /\ backoffMs = BaseBackoffMs
  /\ sleepMs = 0 /\ calls = 1 /\ caught = <<>> /\ events = <<>> /\ committed = <<>>
  /\ updates = 0
  /\ res \in [ok : {TRUE}, logs : Batches(MaxBatch), error : {NoError}]
  /\ blocks \in [BlockNumbers -> BlockSamples]
  /\ lookups = <<>> /\ pending = {} /\ tsMap = <<>>

\* the first loop, new Map(), and uniqueBlocks.map(...) up to Promise.all:
\* every callback runs up to its await, so every lookup is under way
ResolveStart ==
  /\ pc = "resolve"
  /\ lookups' = uniqueBlocks(res.logs)
  /\ pending' = 1..Len(lookups')
  /\ tsMap' = <<>>
  /\ pc' = IF lookups' = <<>> THEN "resolved" ELSE "lookups"
  /\ UNCHANGED <<cfg, lockFiles, other, lockPath, caught, cursors, tables, exitCode, scan,
                 startBlock, lastScanned, latestBlock, fromBlock, b, lastGoodBlock,
                 windowIndex, attempt, backoffMs, sleepMs, res, events, calls, committed,
                 updates, covered, blocks>>

\* one of the lookups settles with a block or null: the rest of its callback
\* runs, and Promise.all resolves behind the last of them
LookupDone ==
  /\ pc = "lookups"
  /\ \E i \in pending :
       /\ blocks[lookups[i]] # "rejects"
       /\ tsMap' = IF blocks[lookups[i]] = "block"
                   THEN mapSet(tsMap, lookups[i], lookups[i] + 1) ELSE tsMap
       /\ pending' = pending \ {i}
       /\ pc' = IF pending' = {} THEN "resolved" ELSE "lookups"
  /\ UNCHANGED <<cfg, lockFiles, other, lockPath, caught, cursors, tables, exitCode, scan,
                 startBlock, lastScanned, latestBlock, fromBlock, b, lastGoodBlock,
                 windowIndex, attempt, backoffMs, sleepMs, res, events, calls, committed,
                 updates, covered, blocks, lookups>>

\* one of the lookups rejects: Promise.all rejects and with it
\* resolveBlockTimestamps
LookupRejects ==
  /\ pc = "lookups"
  /\ \E i \in pending :
       /\ blocks[lookups[i]] = "rejects"
       /\ pending' = pending \ {i}
  /\ pc' = "rejected"
  /\ UNCHANGED <<cfg, lockFiles, other, lockPath, caught, cursors, tables, exitCode, scan,
                 startBlock, lastScanned, latestBlock, fromBlock, b, lastGoodBlock,
                 windowIndex, attempt, backoffMs, sleepMs, res, events, calls, committed,
                 updates, covered, blocks, lookups, tsMap>>

NextResolve == ResolveStart \/ LookupDone \/ LookupRejects

SpecResolve == InitResolve /\ [][NextResolve]_vars

\* ============================================================= properties
\* the cursor row of the pool being scanned
Cursor == cursors[CursorKey(cfg.pools[scan])]

\* main() is inside the for loop of scanPool
InLoop == pc \in {"getLogs", "sleep", "getBlock", "pause"}

\* main() has returned: the process ended by itself, with exit code 0
CleanExit == pc = "exited" /\ exitCode = 0 /\ scan > 0

\* the process was ended by a signal or by the catch of main()
Interrupted == pc = "exited" /\ exitCode \in {1, ExitSigint, ExitSigterm}

\* the scan left its loop through "if (!res.ok) break"
FetchFailed == CleanExit /\ calls > 0 /\ ~res.ok

\* the scan ran its loop to the end
LoopCompleted == CleanExit /\ res.ok

\* this step is the body of the loop for one window (commit and lastGoodBlock)
WindowStep == Len(committed') = Len(committed) + 1

LastWindow == committed[Len(committed)]

IsPrefix(s1, s2) == Len(s1) <= Len(s2) /\ \A i \in 1..Len(s1) : s1[i] = s2[i]

\* the stored row some item of the batch collides with
StoredRowOf(e) ==
  {r \in Range(tables[TableOf(e.kind)]) : SameKey(r, Row(cfg.pools[scan], e))}

\* C1: committing a window's batch leaves every stored row as it was, in
\* place, and committing the same batch once more changes nothing; the
\* commit raises no error.
C1_CommitIdempotent ==
  [][WindowStep =>
       /\ \A t \in TableNames : IsPrefix(tables[t], tables'[t])
       /\ exitCode' # 1
       /\ \E answers \in BlockAnswers(res.logs) :
            LET items == decode(res.logs, resolveBlockTimestamps(res.logs, answers))
            IN /\ tables' = commit(tables, cfg.pools[scan], items)
               /\ commit(tables', cfg.pools[scan], items) = tables']_vars

\* a batch was committed that carries a stored triple with another timestamp
C1_Witness ==
  /\ pc = "pause"
  /\ \E i \in 1..Len(events) :
       \E r \in StoredRowOf(events[i]) : r.block_timestamp # events[i].blockTimestamp

\* C2: every event table holds at most one row per (pool_key, tx_hash,
\* log_index).
C2_UniqueTriple ==
  \A t \in TableNames : \A i, j \in 1..Len(tables[t]) :
    i # j => ~SameKey(tables[t][i], tables[t][j])

\* a later run re-scanned the overlap and committed a batch whose items were
\* all stored already
C2_Witness ==
  /\ pc = "pause"
  /\ lastScanned > 0
  /\ Len(events) > 0
  /\ \A i \in 1..Len(events) :
       events[i].blockNumber <= lastScanned /\ StoredRowOf(events[i]) # {}

\* C3: a run whose fetches all succeeded never writes a last_scanned_block
\* below the stored one.
C3_CursorNeverDecreases ==
  [][(pc \in {"getBlock", "pause"} /\ pc' = "exited" /\ exitCode' = 0) =>
       \A k \in CursorKeys :
         cursors'[k].last_scanned_block >= cursors[k].last_scanned_block]_vars

\* the block the next run starts from, given the stored cursor row
ResumePoint(row) ==
  IF row.last_scanned_block > 0
  THEN Max(row.start_block, row.last_scanned_block - cfg.overlap)
  ELSE row.start_block

\* C4 as stated: after an interruption behind the commit of W1..Wk the next
\* run starts from Wk.to_block - overlap, bounded below by start_block.
C4_ResumesBehindLastCommitted ==
  (Interrupted /\ committed # <<>>) =>
    ResumePoint(Cursor) = Max(Cursor.start_block, LastWindow[2] - cfg.overlap)

\* C4 as amended: an interrupted run leaves the cursor row as it found it, so
\* the next run reads the same row, starts from the block the interrupted
\* run started from, and its commits create no duplicate row.
C4_ResumesFromStoredCursor ==
  /\ [](/\ (Interrupted /\ committed # <<>>) =>
              (Cursor.last_scanned_block = lastScanned /\ ResumePoint(Cursor) = fromBlock)
        /\ pc = "getBlockNumber" =>
              (lastScanned = Cursor.last_scanned_block /\ startBlock = Cursor.start_block)
        /\ InLoop =>
              (/\ fromBlock = ResumePoint([start_block |-> startBlock,
                                           last_scanned_block |-> lastScanned])
               /\ committed = <<>> => b = fromBlock)
        /\ \A t \in TableNames :
             Cardinality({<<r.pool_key, r.tx_hash, r.log_index>> : r \in Range(tables[t])})
               = Len(tables[t]))
  /\ [][\A k \in CursorKeys :
          (pc \in {"exited", "getNetwork"} /\ cursors[k].present) => cursors'[k] = cursors[k]]_vars

\* a run was interrupted behind committed windows with rows in the store, at
\* a point where Wk.to_block - overlap lies beyond the block it started from
C4_Witness ==
  /\ Interrupted
  /\ Len(committed) >= 2
  /\ \E t \in TableNames : tables[t] # <<>>
  /\ Max(Cursor.start_block, LastWindow[2] - cfg.overlap) > fromBlock

\* C5 as stated: once a window is committed the stored last_scanned_block is
\* its to_block when the fetch of the next window begins.
C5_CursorFollowsEachWindow ==
  (pc = "getLogs" /\ committed # <<>>) => Cursor.last_scanned_block = LastWindow[2]

\* C5 as amended: the cursor is written once per scan, behind the loop: while
\* the loop runs the row keeps the value the scan read, and when scanPool has
\* returned it holds the to_block of the last committed window, if any.
C5_CursorWrittenBehindLoop ==
  /\ InLoop => Cursor.last_scanned_block = lastScanned
  /\ (CleanExit /\ committed # <<>>) => Cursor.last_scanned_block = LastWindow[2]
  /\ (CleanExit /\ committed = <<>>) => Cursor.last_scanned_block = lastScanned

\* the next fetch is under way and the stored cursor is still behind the
\* committed window
C5_Witness ==
  /\ pc = "getLogs"
  /\ committed # <<>>
  /\ Cursor.last_scanned_block < LastWindow[2]

\* C6: the windows of a scan are [b, min(b + windowSize, head)], start at
\* fromBlock, follow one another without gap or overlap, and end at the head
\* block when the loop has run to its end.
C6_WindowsTile ==
  LET n == Len(committed)
  IN /\ \A i \in 1..n :
          /\ committed[i][1] <= committed[i][2]
          /\ committed[i][2] <= latestBlock
          /\ committed[i][2] = Min(committed[i][1] + cfg.window, latestBlock)
     /\ n >= 1 => committed[1][1] = fromBlock
     /\ \A i \in 1..(n - 1) : committed[i + 1][1] = committed[i][2] + 1
     /\ LoopCompleted => (n >= 1 /\ committed[n][2] = latestBlock)

\* a completed scan of several windows, the last one cut short by the head
C6_Witness ==
  /\ LoopCompleted
  /\ Len(committed) >= 2
  /\ LastWindow[2] - LastWindow[1] < cfg.window

\* C7: fromBlock is start_block when last_scanned_block is 0 and
\* max(start_block, last_scanned_block - overlap) otherwise; from 1000 with
\* overlap 5, window size 499 and head 2000 the scan starts at 995 and its
\* windows are [995,1494], [1495,1994], [1995,2000].
C7_EffectiveStart ==
  /\ (InLoop \/ CleanExit) =>
       fromBlock = (IF lastScanned = 0 THEN startBlock
                    ELSE Max(startBlock, lastScanned - cfg.overlap))
  /\ (LoopCompleted /\ lastScanned = 1000 /\ cfg.overlap = 5 /\ cfg.window = 499
        /\ startBlock <= 995 /\ latestBlock = 2000) =>
       (fromBlock = 995 /\ committed = << <<995, 1494>>, <<1495, 1994>>, <<1995, 2000>> >>)

C7_Witness ==
  /\ LoopCompleted
  /\ lastScanned = 1000 /\ cfg.overlap = 5
  /\ committed = << <<995, 1494>>, <<1495, 1994>>, <<1995, 2000>> >>

\* what getLogsWithRetry retries: a rate-limit error or one with a usable
\* retry-after hint
RetryableError(err) == err.rateLimit \/ err.retryIn > 0

\* C8: getLogsWithRetry calls provider.getLogs at most maxAttempts times and
\* sleeps only when an attempt is left; when it gives up on a retryable error
\* it has made exactly maxAttempts calls, and it returns a failure instead of
\* throwing.
C8_BoundedAttempts ==
  /\ calls <= DefaultMaxAttempts
  /\ pc = "sleep" => attempt < DefaultMaxAttempts
  /\ (FetchFailed /\ RetryableError(res.error)) => calls = DefaultMaxAttempts
  /\ (pc = "exited" /\ exitCode = 1 /\ calls > 0) => res.ok

C8_Witness ==
  /\ FetchFailed
  /\ res.error.rateLimit
  /\ calls = DefaultMaxAttempts

\* C9: when the fetch of a window fails for good, no later window is fetched
\* and the cursor holds the to_block of the last window committed before it,
\* or its value from before the run when there is none.
C9_FailedFetchStopsLoop ==
  FetchFailed =>
    /\ windowIndex = Len(committed) + 1
    /\ b = (IF committed = <<>> THEN fromBlock ELSE LastWindow[2] + 1)
    /\ Cursor.last_scanned_block =
         (IF committed = <<>> THEN lastScanned ELSE LastWindow[2])

\* a fetch failed behind a committed window and short of the head
C9_Witness ==
  /\ FetchFailed
  /\ committed # <<>>
  /\ LastWindow[2] < latestBlock
  /\ Cursor.last_scanned_block = LastWindow[2]

\* C10: a failed block lookup never ends the run: while the timestamps of a
\* window are looked up the process exits with code 1 only when the commit
\* of the window's decoded batch throws.
C10_LookupFailureTolerated ==
  [][(pc = "getBlock" /\ pc' = "exited" /\ exitCode' = 1) => events' # <<>>]_vars

\* the field holds a non-negative integer number
UsableNumber(v) == v.type = "number" /\ v.int /\ v.num >= 0

\* a raw log the decoder has to drop: no usable log index (among logs whose
\* index fields hold numbers or nothing), no transaction hash, or a payload
\* that does not decode
Malformed(lg) ==
  \/ ~(UsableNumber(lg.index) \/ UsableNumber(lg.logIndex))
  \/ lg.transactionHash = ""
  \/ lg.name = "throws"

\* the row a well-formed raw log is stored as
StoredAs(lg, r) ==
  /\ r.pool_key = lg.address
  /\ r.tx_hash = lg.transactionHash
  /\ r.log_index = (IF UsableNumber(lg.index) THEN lg.index.num ELSE lg.logIndex.num)
  /\ r.block_number = lg.blockNumber

ScannerHoldsLock == pc \in AwaitPcs /\ lockPath # NoLock

\* so is the other scanner process
OtherHoldsLock == other # NoLock

\* C12: at most one scanner process is between a successful acquireLock and
\* its releaseLock.
C12_OneScannerAtATime == ~(ScannerHoldsLock /\ OtherHoldsLock)

\* C13: once the scanner process has run its signal handler or has ended, on
\* whatever path, no lock file of its making exists; releaseLock without a
\* lockPath or on a removed file changes nothing and does not throw, so the
\* exit code of a signalled process is that of its handler.
C13_LockReleasedOnExit ==
  /\ [](/\ pc \in {"exited", "SIGINT", "SIGTERM"} =>
              \A n \in LockNames : lockFiles[n] # "scanner"
        /\ releaseLock(lockFiles, NoLock) = lockFiles
        /\ \A n \in LockNames :
             lockFiles[n] = NoFile => releaseLock(lockFiles, n) = lockFiles)
  /\ [][/\ (pc = "SIGINT" /\ pc' # pc) => (pc' = "exited" /\ exitCode' = ExitSigint)
        /\ (pc = "SIGTERM" /\ pc' # pc) => (pc' = "exited" /\ exitCode' = ExitSigterm)]_vars

\* a process that held the lock was ended by SIGTERM in the middle of a scan:
\* handler and 'exit' listener have both released
C13_Witness ==
  /\ pc = "exited" /\ exitCode = ExitSigterm
  /\ lockPath = "scan-stability-pool"
  /\ committed # <<>>
  /\ lockFiles[lockPath] = NoFile

\* C14: a scanner started while the lock file exists exits with code zero
\* at once: no request to the provider, no change to a cursor row, an event
\* row or a lock file.
C14_ContentionExitsZero ==
  [][(/\ pc \in {"idle", "exited"}
      /\ lockFiles["scan-stability-pool"] # NoFile
      /\ other' = other) =>
       /\ pc' = "exited" /\ exitCode' = 0 /\ lockPath' = NoLock
       /\ scan' = 0 /\ calls' = 0
       /\ cursors' = cursors /\ tables' = tables /\ lockFiles' = lockFiles]_vars

\* a scanner with rows in its store found the lock held by another instance
\* and exited with code zero
C14_Witness ==
  /\ pc = "exited" /\ exitCode = 0 /\ scan = 0 /\ lockPath = NoLock
  /\ other = "scan-stability-pool" /\ lockFiles[other] = "other"
  /\ \E t \in TableNames : tables[t] # <<>>

\* C15: a scanner that finds no lock file and still gets no lock (the lock
\* directory or the lock file cannot be created) exits with a non-zero code.
C15_LockFailureExitsNonZero ==
  [][(/\ pc \in {"idle", "exited"}
      /\ lockFiles["scan-stability-pool"] = NoFile
      /\ other' = other
      /\ pc' = "exited" /\ lockPath' = NoLock) => exitCode' \notin {0, Null}]_vars

\* C16: a scanner process that exits with the code of a fatal error has
\* done no scanning: it has committed no window.
C16_NonZeroMeansNoScanning ==
  (pc = "exited" /\ exitCode = 1) => committed = <<>>

\* this step is a transaction of scanPool that throws
CommitFailsStep == pc = "getBlock" /\ pc' = "exited" /\ exitCode' = 1 /\ events' # <<>>

\* C17: when the transaction of a window throws, the process exits with
\* code 1 without another window or pool, and the cursor rows stay as they
\* were: the stored last_scanned_block is not moved to the to_block of that
\* window.
C17_CommitFailureIsFatal ==
  /\ [][CommitFailsStep =>
          /\ cursors' = cursors
          /\ committed' = committed /\ lastGoodBlock' = lastGoodBlock
          /\ scan' = scan /\ b' = b
          /\ \A n \in LockNames : lockFiles'[n] # "scanner"]_vars
  /\ [](pc = "getBlock" => Cursor.last_scanned_block = lastScanned)

\* the transaction of a window behind the stored cursor threw after an
\* earlier window of the run was committed
C17_Witness ==
  /\ pc = "exited" /\ exitCode = 1
  /\ events # <<>>
  /\ committed # <<>>
  /\ Cursor.last_scanned_block = lastScanned
  /\ Cursor.last_scanned_block < ToBlock(b, latestBlock, cfg.window)

\* C18: the rows of a window's batch reach the event tables all at once or
\* not at all: every step leaves both tables as they are or adds the whole
\* batch to them, and a transaction that throws leaves them as they are.
C18_CommitAtomic ==
  [][/\ tables' # tables =>
          /\ pc = "getBlock"
          /\ \E answers \in BlockAnswers(res.logs) :
               tables' = commit(tables, cfg.pools[scan],
                                decode(res.logs, resolveBlockTimestamps(res.logs, answers)))
     /\ (pc # "getBlock" \/ pc' \in {"SIGINT", "SIGTERM"} \/ exitCode' = 1) =>
          tables' = tables]_vars

\* a transaction over both event tables threw at its second insert and no
\* row of it is stored
C18_Witness ==
  /\ pc = "exited" /\ exitCode = 1
  /\ Len(events) = 2
  /\ events[1].kind # events[2].kind
  /\ \A t \in TableNames : tables[t] = <<>>

\* this step ends getLogsWithRetry with a failure and the loop of scanPool
\* with it
FetchFailsStep == pc = "getLogs" /\ pc' \in {"exited", "getBlockNumber"}

\* the cursor row of the pool being scanned, behind this step
CursorAfter == cursors'[CursorKey(cfg.pools[scan])]

\* where a scan that ends its loop leaves the stored cursor
CursorBehindLoop ==
  IF committed = <<>> THEN lastScanned ELSE LastWindow[2]

\* C19 as stated: a fetch that fails for good writes the cursor of the last
\* committed window and takes the run straight to the release of the lock.
C19_FailedWindowReleasesLock ==
  [][FetchFailsStep =>
       /\ CursorAfter.last_scanned_block = CursorBehindLoop
       /\ pc' = "exited" /\ exitCode' = 0
       /\ lockFiles'[lockPath] = NoFile]_vars

\* C19 as amended: a fetch that fails for good ends the loop of its pool
\* with the cursor at the last committed window; the run goes on with the
\* next pool under the same lock and releases the lock behind the last
\* pool.
C19_FailedWindowEndsTarget ==
  [][FetchFailsStep =>
       /\ CursorAfter.last_scanned_block = CursorBehindLoop
       /\ IF scan < Len(cfg.pools)
          THEN /\ pc' = "getBlockNumber" /\ scan' = scan + 1
               /\ committed' = <<>> /\ calls' = 0
               /\ lockPath' = lockPath /\ lockFiles' = lockFiles
          ELSE /\ pc' = "exited" /\ exitCode' = 0 /\ scan' = scan
               /\ lockFiles'[lockPath] = NoFile]_vars

\* the second pool is being fetched in a run whose scan of the first pool
\* ended short of the head
C19_Witness ==
  /\ pc = "getLogs" /\ scan = 2
  /\ lockFiles[lockPath] = "scanner"
  /\ cursors[CursorKey("p1")].present
  /\ cursors[CursorKey("p1")].last_scanned_block = 1
  /\ latestBlock = 2

\* C20: an error that shows neither a rate-limit pattern nor a usable
\* retry-after hint ends getLogsWithRetry in the attempt it occurs in: the
\* failure carries that error and is returned without a sleep and without
\* another provider.getLogs call, whatever the number of attempts left.
C20_NonRetryableFailsAtOnce ==
  [][(pc = "getLogs" /\ caught' # <<>> /\ ~RetryableError(caught'[1])) =>
       /\ pc' \notin {"sleep", "getLogs"}
       /\ ~res'.ok /\ res'.error = caught'[1]
       /\ calls' = calls /\ attempt' = attempt
       /\ sleepMs' = 0]_vars

\* the third attempt of a fetch met a non-retryable error and the fetch
\* ended there, three attempts short of its budget
C20_Witness ==
  /\ pc = "exited" /\ exitCode = 0
  /\ caught # <<>> /\ ~caught[1].rateLimit /\ caught[1].retryIn = Null
  /\ ~res.ok
  /\ calls = 3 /\ attempt = 3

\* the computed backoff at the k-th retry
BackoffAt(k) == IF 750 * 2^(k - 1) <= 10000 THEN 750 * 2^(k - 1) ELSE 10000

\* C21 as stated: the wait before the k-th retry is N * 1000 ms when the
\* error carries a hint of N seconds and min(750 * 2^(k-1), 10000) ms
\* otherwise; the backoff doubles with every retry up to 10000 ms, and no
\* wait follows the last attempt.
C21_WaitIsHintOrBackoff ==
  /\ pc = "sleep" =>
       /\ attempt \in 1..5
       /\ sleepMs = (IF caught[1].retryIn # Null THEN caught[1].retryIn * 1000
                     ELSE BackoffAt(attempt))
  /\ pc \in {"sleep", "getLogs"} => (backoffMs = BackoffAt(attempt) /\ backoffMs <= 10000)

\* C21 as amended: the hint counts only when N > 0; a hint of 0 seconds is
\* no hint, and the wait is the computed backoff.
C21_WaitIsUsableHintOrBackoff ==
  /\ pc = "sleep" =>
       /\ attempt \in 1..5
       /\ sleepMs = (IF caught[1].retryIn > 0 THEN caught[1].retryIn * 1000
                     ELSE BackoffAt(attempt))
  /\ pc \in {"sleep", "getLogs"} => (backoffMs = BackoffAt(attempt) /\ backoffMs <= 10000)

\* the fifth retry behind a rate-limit error with a hint of 0 seconds waits
\* for the capped backoff
C21_Witness ==
  /\ pc = "sleep" /\ attempt = 5
  /\ caught[1].rateLimit /\ caught[1].retryIn = 0
  /\ sleepMs = 10000

\* C22: a fetch that fails for good on one pool does not end the process:
\* the scan of every later pool is begun in the same run, and a run that
\* ends by itself has visited all pools and exits with code zero.
C22_FetchFailureContained ==
  /\ [][FetchFailsStep =>
          /\ exitCode' \in {Null, 0}
          /\ pc' = "exited" <=> scan = Len(cfg.pools)
          /\ scan < Len(cfg.pools) =>
               /\ scan' = scan + 1
               /\ cursors'[CursorKey(cfg.pools[scan + 1])].present]_vars
  /\ [](CleanExit => scan = Len(cfg.pools))

\* the fetch of the first pool failed short of the head, the second pool
\* was scanned to the head with its row stored, and the run ended with
\* code zero
C22_Witness ==
  /\ CleanExit /\ scan = 2
  /\ cursors[CursorKey("p1")].present
  /\ cursors[CursorKey("p1")].last_scanned_block < 2
  /\ cursors[CursorKey("p2")].last_scanned_block = 2
  /\ \E r \in Range(tables["sp_deposit_updates"]) : r.pool_key = "p2"
  /\ \A t \in TableNames : \A r \in Range(tables[t]) : r.pool_key # "p1"

\* what the sample strings parse to, by Number.parseInt with radix 16 for
\* those that start with "0x" and radix 10 for the others (it reads the
\* longest numeric prefix behind white space and a sign); Null for those that
\* parse to no non-negative integer
ParsesTo(s) ==
  CASE s = <<"7">> -> 7
    [] s = <<"1", "2">> -> 12
    [] s = <<"0", "x", "1", "f">> -> 31
    [] s = <<"0", "x", "0">> -> 0
    [] s = <<"7", "z">> -> 7
    [] s = <<" ", "5">> -> 5
    [] s = <<"+", "2">> -> 2
    [] s = <<"1", ".", "5">> -> 1
    [] s = <<"0", "X", "1", "F">> -> 0
    [] OTHER -> Null

\* the stable log index the statement gives a raw log
ExpectedIndex(lg) ==
  IF UsableNumber(lg.index) THEN lg.index.num
  ELSE IF UsableNumber(lg.logIndex) THEN lg.logIndex.num
  ELSE IF lg.logIndex.type = "string" THEN ParsesTo(lg.logIndex.str)
  ELSE Null

\* the stored rows of a raw log
RowsOf(lg) ==
  {r \in UNION {Range(tables[t]) : t \in TableNames} :
     r.pool_key = lg.address /\ r.tx_hash = lg.transactionHash}

\* C23: the stable log index of a log is the provider index when that is a
\* non-negative integer, else logIndex when that is a non-negative integer
\* number or a string that parses (as decimal, or as hex behind "0x") to a
\* non-negative integer, else null; no stored log_index is negative, and
\* once a window is committed a log with index null has no row while every
\* other log of it is stored under exactly that index.
C23_StableLogIndex ==
  /\ \A t \in TableNames : \A i \in 1..Len(tables[t]) : tables[t][i].log_index \in Nat
  /\ LoopCompleted =>
       \A i \in 1..Len(res.logs) :
         LET lg == res.logs[i]
         IN IF ExpectedIndex(lg) = Null THEN RowsOf(lg) = {}
            ELSE /\ RowsOf(lg) # {}
                 /\ \A r \in RowsOf(lg) : r.log_index = ExpectedIndex(lg)

\* a log without index whose logIndex is the string "0x1f" is stored under 31
C23_Witness ==
  /\ LoopCompleted
  /\ res.logs # <<>>
  /\ res.logs[1].index = Undef
  /\ res.logs[1].logIndex = Str(<<"0", "x", "1", "f">>)
  /\ \E r \in RowsOf(res.logs[1]) : r.log_index = 31

\* C24: when the head block the provider reports lies below the effective
\* start block of a target, the scan of the target ends there: no window is
\* begun, getLogs is not called, no UPDATE runs on the cursor table, and the
\* cursor row and the event tables stay as they are.
C24_SkippedBeyondHead ==
  [][(/\ pc = "getBlockNumber" /\ pc' \in {"getLogs", "exited"} /\ exitCode' # 1
      /\ latestBlock' < (IF lastScanned > 0 THEN Max(startBlock, lastScanned - cfg.overlap)
                         ELSE startBlock))
     => /\ pc' # "getLogs" /\ calls' = 0
        /\ windowIndex' = 0 /\ committed' = <<>>
        /\ updates' = updates
        /\ cursors'[CursorKey(cfg.pools[scan])] = cursors[CursorKey(cfg.pools[scan])]
        /\ tables' = tables]_vars

\* a run over a store with rows and an advanced cursor found the head below
\* its start block and ended
C24_Witness ==
  /\ CleanExit
  /\ lastScanned > 0
  /\ fromBlock > latestBlock
  /\ committed = <<>> /\ calls = 0 /\ updates = 0
  /\ Cursor.last_scanned_block = lastScanned
  /\ \E t \in TableNames : tables[t] # <<>>

\* the mapping a Map holds
MapOf(m) ==
  [k \in {m[i][1] : i \in 1..Len(m)} |-> (CHOOSE e \in Range(m) : e[1] = k)[2]]

\* C25: resolveBlockTimestamps calls provider.getBlock once for every
\* distinct integer block number of the batch and for nothing else, makes
\* all the calls before any of them settles, and, whatever the order in
\* which they settle, returns the map that takes every such block whose
\* lookup gave a block with an integer timestamp to that timestamp.
C25_OneLookupPerBlock ==
  /\ [](pc \in {"lookups", "resolved", "rejected"} =>
          /\ Range(lookups) = {res.logs[i].blockNumber : i \in 1..Len(res.logs)} \ {Null}
          /\ Len(lookups) = Cardinality(Range(lookups)))
  /\ [][lookups' # lookups => (pc = "resolve" /\ pending' = 1..Len(lookups'))]_vars
  /\ [](pc = "resolved" =>
          /\ Len(tsMap) = Cardinality({tsMap[i][1] : i \in 1..Len(tsMap)})
          /\ MapOf(tsMap) =
               [bn \in {res.logs[i].blockNumber : i \in 1..Len(res.logs)}
                         \cap {x \in BlockNumbers : blocks[x] = "block"} |-> bn + 1])

\* a batch of three logs over two blocks was resolved with two lookups that
\* settled in the reverse of the order they were made in
C25_Witness ==
  /\ pc = "resolved"
  /\ Len(res.logs) = 3
  /\ Len(lookups) = 2
  /\ Len(tsMap) = 2
  /\ tsMap[1][1] = lookups[2]

C27_RemovesOwnLockOnly ==
  [][\A n \in LockNames :
       (lockFiles[n] = "other" /\ lockFiles'[n] # "other") => (other = n /\ other' = NoLock)]_vars

\* C28: when neither the scanner process nor an other process that holds
\* the lock of scanStabilityPool.js is alive, its lock file does not exist,
\* so that the next invocation acquires the lock and scans.
C28_NoLockLeftBehind ==
  (pc \in {"idle", "exited", "killed"} /\ other # "scan-stability-pool")
    => lockFiles["scan-stability-pool"] = NoFile

\* this step takes a row away: an event row is gone, moved or changed, or a
\* cursor row is gone
LosesRow ==
  \/ \E t \in TableNames : ~IsPrefix(tables[t], tables'[t])
  \/ \E k \in CursorKeys : cursors[k].present /\ ~cursors'[k].present

\* C29: a step that deletes or changes a stored event row or deletes a
\* cursor row is a run of resetDatum and no step of the scanner: it clears
\* the tables and leaves the scanner process where it is.  Every other step
\* keeps every stored event row, with its values and in its place, and
\* every cursor row.
C29_OnlyResetRemovesRows ==
  [][LosesRow =>
       /\ cursors' = [k \in CursorKeys |-> NoCursor]
       /\ tables' = [t \in TableNames |-> <<>>]
       /\ UNCHANGED <<pc, exitCode, scan, lockFiles, lockPath, latestBlock, fromBlock, b,
                      lastGoodBlock, windowIndex, attempt, res, events, calls, committed,
                      updates>>]_vars

\* a run re-scanned a window in which a stored log is no longer returned and
\* another one comes with a timestamp where the stored row has none
C29_Witness ==
  /\ CleanExit
  /\ committed # <<>>
  /\ \E i \in 1..Len(events) :
       \E r \in StoredRowOf(events[i]) :
         r.block_timestamp = Null /\ events[i].blockTimestamp # Null
  /\ \E t \in TableNames : \E r \in Range(tables[t]) :
       /\ LastWindow[1] <= r.block_number /\ r.block_number <= LastWindow[2]
       /\ \A i \in 1..Len(res.logs) : res.logs[i].transactionHash # r.tx_hash

\* C30: in a run in which every getLogsWithRetry succeeds and nothing throws
\* or interrupts, a scan whose start block is not beyond the head ends, after
\* exactly ceil((head - from + 1) / (window + 1)) windows, with
\* last_scanned_block at the head block it read; every such run ends.
C30_Progress ==
  /\ [](pc = "exited" =>
          /\ exitCode = 0
          /\ fromBlock <= latestBlock =>
                /\ Len(committed) =
                     (latestBlock - fromBlock + 1 + cfg.window) \div (cfg.window + 1)
                /\ windowIndex = Len(committed)
                /\ Cursor.last_scanned_block = latestBlock)
  /\ (pc \in AwaitPcs ~> pc = "exited")

\* a scan ended behind two windows, the last of them cut at the head block
C30_Witness ==
  /\ pc = "exited" /\ exitCode = 0
  /\ Len(committed) = 2
  /\ cfg.window = 1
  /\ LastWindow = <<latestBlock, latestBlock>>
  /\ Cursor.last_scanned_block = latestBlock

====
